---- MODULE Spec2Model ----
(***************************************************************************)
(* Model of tools/install_web_search_mcp.py: the installer pipeline        *)
(*   check_requirements -> download_web_search_mcp (with verify_file_hash) *)
(*   -> install_web_search_mcp -> run_npm_setup, driven by main.           *)
(*                                                                         *)
(* Text (command output, version strings) is a sequence of one-character   *)
(* strings.  A file's content is a sequence of chunks.  The externals the  *)
(* program talks to (the two version commands, the release server, the     *)
(* unpacker's I/O, npm and npx) are the record env; it may change only     *)
(* between two runs of the pipeline.                                       *)
(***************************************************************************)
EXTENDS Integers, Sequences, FiniteSets, TLC

\* ------------------------------------------------------------------ bounds
\* Largest major number a version command reports.
MaxMajor == 19
\* Largest minor and patch number a version command reports.
MaxMinor == 1
\* Largest number of chunks in a response body.
MaxChunks == 2

\* ------------------------------------------------------------------- text
Digits == <<"0", "1", "2", "3", "4", "5", "6", "7", "8", "9">>

IsDigit(c) == \E i \in 1..10 : Digits[i] = c

DigitVal(c) == (CHOOSE i \in 1..10 : Digits[i] = c) - 1

\* str(n) for a natural number n
RECURSIVE ToStr(_)
ToStr(n) == IF n < 10 THEN <<Digits[n + 1]>>
            ELSE ToStr(n \div 10) \o <<Digits[(n % 10) + 1]>>

\* "a.b.c" from the numbers <<a, b, c>>
RECURSIVE Dotted(_)
Dotted(nums) == IF Len(nums) = 0 THEN <<>>
                ELSE IF Len(nums) = 1 THEN ToStr(nums[1])
                ELSE ToStr(nums[1]) \o <<".">> \o Dotted(Tail(nums))

\* str.replace(old, '') for a one-character old
RECURSIVE Remove(_, _)
Remove(s, c) == IF s = <<>> THEN <<>>
                ELSE IF Head(s) = c THEN Remove(Tail(s), c)
                ELSE <<Head(s)>> \o Remove(Tail(s), c)

\* the index after the longest run of digits of s that starts at i
RECURSIVE DigitsEnd(_, _)
DigitsEnd(s, i) == IF i <= Len(s) /\ IsDigit(s[i]) THEN DigitsEnd(s, i + 1) ELSE i

\* int(d) for a non-empty run of digits d
RECURSIVE ParseNat(_)
ParseNat(d) == IF Len(d) = 1 THEN DigitVal(d[1])
               ELSE 10 * ParseNat(SubSeq(d, 1, Len(d) - 1)) + DigitVal(d[Len(d)])

\* ------------------------------------------------- packaging.version.parse
\* The part of the version grammar the outputs below exercise: an optional
\* "v", a release N(.N)*, and an optional pre-release "rc" with an optional
\* "-" or "." before it and an optional number after it.  Anything else is
\* InvalidVersion, modelled as the record with ok = FALSE.
InvalidVersion == [ok |-> FALSE, release |-> <<>>, pre |-> -1]

\* the release numbers of s from index i on: [nums, next]; nums = <<>> if s
\* has no number at i
RECURSIVE ParseRelease(_, _)
ParseRelease(s, i) ==
    LET j == DigitsEnd(s, i) IN
    IF j = i THEN [nums |-> <<>>, next |-> i]
    ELSE LET n == ParseNat(SubSeq(s, i, j - 1)) IN
         IF j + 1 <= Len(s) /\ s[j] = "." /\ IsDigit(s[j + 1])
         THEN LET r == ParseRelease(s, j + 1) IN
              [nums |-> <<n>> \o r.nums, next |-> r.next]
         ELSE [nums |-> <<n>>, next |-> j]

\* the pre-release part: rest is what follows the release. pre = -1 for a
\* final release, the rc number otherwise; ok = FALSE if rest is neither.
ParsePre(rest) ==
    LET t == IF rest # <<>> /\ Head(rest) \in {"-", "."} THEN Tail(rest) ELSE rest IN
    IF rest = <<>> THEN [ok |-> TRUE, pre |-> -1]
    ELSE IF Len(t) >= 2 /\ t[1] = "r" /\ t[2] = "c"
         THEN LET u == SubSeq(t, 3, Len(t))
                  w == IF u # <<>> /\ Head(u) \in {"-", "."} THEN Tail(u) ELSE u IN
              IF u = <<>> THEN [ok |-> TRUE, pre |-> 0]
              ELSE IF w # <<>> /\ DigitsEnd(w, 1) = Len(w) + 1
                   THEN [ok |-> TRUE, pre |-> ParseNat(w)]
                   ELSE [ok |-> FALSE, pre |-> -1]
         ELSE [ok |-> FALSE, pre |-> -1]

VersionParse(s) ==
    LET body == IF s # <<>> /\ Head(s) = "v" THEN Tail(s) ELSE s
        r    == ParseRelease(body, 1)
        p    == ParsePre(SubSeq(body, r.next, Len(body))) IN
    IF r.nums = <<>> \/ ~p.ok THEN InvalidVersion
    ELSE [ok |-> TRUE, release |-> r.nums, pre |-> p.pre]

\* Version._key: the release with its trailing zeros dropped
RECURSIVE StripZeros(_)
StripZeros(r) == IF r # <<>> /\ r[Len(r)] = 0
                 THEN StripZeros(SubSeq(r, 1, Len(r) - 1)) ELSE r

\* tuple comparison a >= b
RECURSIVE TupleGE(_, _)
TupleGE(a, b) == IF b = <<>> THEN TRUE
                 ELSE IF a = <<>> THEN FALSE
                 ELSE IF Head(a) # Head(b) THEN Head(a) > Head(b)
                 ELSE TupleGE(Tail(a), Tail(b))

\* faulty variant: > in place of >=
VersionGE_strict(a, b) ==
    LET ra == StripZeros(a.release)
        rb == StripZeros(b.release) IN
    ra # rb /\ TupleGE(ra, rb)

\* Version.__ge__: by release, then a pre-release sorts before its final
VersionGE(a, b) ==
    LET ra == StripZeros(a.release)
        rb == StripZeros(b.release) IN
    IF ra # rb THEN TupleGE(ra, rb)
    ELSE IF b.pre = -1 THEN a.pre = -1
    ELSE a.pre = -1 \/ a.pre >= b.pre

\* ---------------------------------------------- re.search(r'(\d+\.\d+\.\d+)')
\* the end index (exclusive) of a match that starts at i, 0 if none
TripleEnd(s, i) ==
    LET j1 == DigitsEnd(s, i)
        j2 == DigitsEnd(s, j1 + 1)
        j3 == DigitsEnd(s, j2 + 1) IN
    IF /\ j1 > i /\ j1 <= Len(s) /\ s[j1] = "."
       /\ j2 > j1 + 1 /\ j2 <= Len(s) /\ s[j2] = "."
       /\ j3 > j2 + 1
    THEN j3 ELSE 0

\* group(1) of the leftmost match, <<>> if the pattern does not occur
SearchTriple(s) ==
    LET starts == {i \in 1..Len(s) : TripleEnd(s, i) # 0} IN
    IF starts = {} THEN <<>>
    ELSE LET i == CHOOSE k \in starts : \A m \in starts : k <= m IN
         SubSeq(s, i, TripleEnd(s, i) - 1)

\* --------------------------------------------------- check_command_version
\* What subprocess.run gives for [command, "--version"]: kind "ok" with the
\* stripped stdout, "failed" (CalledProcessError) or "notfound"
\* (FileNotFoundError).
\* The status line is the record [kind, command, found, required]: found and
\* required are the version texts the line shows, <<>> when it shows none.
Message(kind, command, found, required) ==
    [kind |-> kind, command |-> command, found |-> found, required |-> required]

VersionStr(command, output) ==
    IF command = "node" THEN Remove(output, "v")
    ELSE IF command = "npm" THEN output
    ELSE SearchTriple(output)

check_command_version(command, min_version, result) ==
    IF result.kind = "failed"
    THEN [met |-> FALSE, message |-> Message("failed", command, <<>>, <<>>)]
    ELSE IF result.kind = "notfound"
    THEN [met |-> FALSE, message |-> Message("notfound", command, <<>>, <<>>)]
    ELSE
    LET version_str == VersionStr(command, result.out)
        current_version == VersionParse(version_str)
        required_version == VersionParse(min_version) IN
    IF command \notin {"node", "npm"} /\ version_str = <<>>
    THEN [met |-> FALSE, message |-> Message("unparsable", command, result.out, <<>>)]
    ELSE IF ~current_version.ok \/ ~required_version.ok
    THEN [met |-> FALSE,
          message |-> Message("error", command,
                              IF ~current_version.ok THEN version_str ELSE min_version,
                              <<>>)]
    ELSE IF VersionGE(current_version, required_version)
    THEN [met |-> TRUE, message |-> Message("ok", command, version_str, <<>>)]
    ELSE [met |-> FALSE, message |-> Message("below", command, version_str, min_version)]


\* the loop of check_requirements over its requirements list: every status
\* line, in order
requirements == << [command |-> "node", min_version |-> <<"1", "8", ".", "0", ".", "0">>],
                   [command |-> "npm", min_version |-> <<"8", ".", "0", ".", "0">>] >>

\* faulty variant: all_met is overwritten by each check, so only the last one counts
check_requirements_last(e) ==
    LET checks == [i \in 1..Len(requirements) |->
                     check_command_version(requirements[i].command,
                                           requirements[i].min_version,
                                           e[requirements[i].command])] IN
    [all_met |-> checks[Len(requirements)].met,
     checks  |-> checks]

\* faulty variant: the loop returns at the first requirement that is not met
check_requirements_abort(e) ==
    LET checks == [i \in 1..Len(requirements) |->
                     check_command_version(requirements[i].command,
                                           requirements[i].min_version,
                                           e[requirements[i].command])]
        failing == {i \in 1..Len(requirements) : ~checks[i].met} IN
    IF failing = {} THEN [all_met |-> TRUE, checks |-> checks]
    ELSE [all_met |-> FALSE,
          checks  |-> SubSeq(checks, 1, CHOOSE i \in failing : \A j \in failing : i <= j)]

check_requirements(e) ==
    LET checks == [i \in 1..Len(requirements) |->
                     check_command_version(requirements[i].command,
                                           requirements[i].min_version,
                                           e[requirements[i].command])] IN
    [all_met |-> \A i \in 1..Len(requirements) : checks[i].met,
     checks  |-> checks]

\* ------------------------------------------------------- files and digests
ChunkVals == 1..2

\* every sequence over S of length n
RECURSIVE SeqsOfLen(_, _)
SeqsOfLen(S, n) == IF n = 0 THEN {<<>>}
                   ELSE {Append(q, x) : q \in SeqsOfLen(S, n - 1), x \in S}

\* the response bodies the server may deliver
Bodies == UNION {SeqsOfLen(ChunkVals, n) : n \in 1..MaxChunks}

\* hashlib.sha256 over the chunks of a file, to its hexdigest: modelled as an
\* injective numbering of the contents (no two contents of the model collide)
RECURSIVE Sha256(_)
Sha256(bytes) == IF bytes = <<>> THEN 0
                 ELSE Sha256(SubSeq(bytes, 1, Len(bytes) - 1)) * Cardinality(ChunkVals)
                      + bytes[Len(bytes)]

\* the pinned digest of the release archive
expected_hash == 4

\* faulty variant: an archive is trusted without comparing digests
verify_file_hash_trusting(bytes, expected) == TRUE

verify_file_hash(bytes, expected) == Sha256(bytes) = expected

\* the release asset: the one content the pinned digest names
ReleaseBody == CHOOSE b \in Bodies : Sha256(b) = expected_hash

\* zipfile.ZipFile(zip_file): the release asset is a zip archive with these
\* entries; no other content of the model is one (BadZipFile)
IsZipFile(bytes) == bytes = ReleaseBody

ArchiveEntries == {"package.json", "dist/index.js"}

\* file names are their dot-separated parts; Path.stem drops the last one
ZipName == <<"web-search-mcp-v0", "3", "2", "zip">>

\* faulty variant: the extension is not stripped
Stem_whole(name) == name

Stem(name) == IF Len(name) > 1 THEN SubSeq(name, 1, Len(name) - 1) ELSE name

ToolsDir == <<"tools">>

NoFile == [exists |-> FALSE, bytes |-> <<>>]

NoDir == [exists |-> FALSE, name |-> <<>>, entries |-> {}]

SetupMarker == ".setup_complete"

\* ------------------------------------------------------------ environment
\* what the version commands print for the version <<a, b, c>>
Reported(triple, fmt) ==
    CASE fmt = "plain"   -> Dotted(triple)
      [] fmt = "v"       -> <<"v">> \o Dotted(triple)
      [] fmt = "rc"      -> <<"v">> \o Dotted(triple) \o <<"-", "r", "c", ".", "1">>
      [] fmt = "nightly" -> <<"v">> \o Dotted(triple) \o <<"-", "n", "i", "g", "h", "t", "l", "y">>
      [] fmt = "text"    -> <<"g", "i", "t", " ">> \o Dotted(triple)
      [] fmt = "bare"    -> ToStr(triple[1])

Ran(out) == [kind |-> "ok", out |-> out]

Failed == [kind |-> "failed", out |-> <<>>]

NotFound == [kind |-> "notfound", out |-> <<>>]

NodeResults == {Ran(Reported(<<18, 0, 0>>, "v")), Ran(Reported(<<17, 1, 1>>, "v")),
                Ran(Reported(<<19, 0, 0>>, "nightly")), Failed}

NpmResults == {Ran(Reported(<<8, 0, 0>>, "plain")), Ran(Reported(<<7, 1, 0>>, "plain")),
               NotFound}

ServerResults == {[kind |-> k, body |-> <<>>] : k \in {"urlerror", "non200"}}
                 \cup {[kind |-> "ok", body |-> b] : b \in Bodies}
                 \cup {[kind |-> "drop", body |-> b] : b \in {c \in Bodies : Sha256(c) = expected_hash}}

PostResults == {[npm_install |-> "ok", npx |-> "ok"], [npm_install |-> "ok", npx |-> "fail"],
                [npm_install |-> "fail", npx |-> "ok"], [npm_install |-> "error", npx |-> "ok"]}

\* the environment in which nothing external fails
Cooperative == [node   |-> Ran(Reported(<<18, 0, 0>>, "v")),
                npm    |-> Ran(Reported(<<8, 0, 0>>, "plain")),
                server |-> [kind |-> "ok", body |-> CHOOSE b \in Bodies : Sha256(b) = expected_hash],
                unzip  |-> "ok",
                post   |-> [npm_install |-> "ok", npx |-> "ok"]]

\* The environments of the model.  main stops at the first stage that fails,
\* so a run meets at most one failing external past the requirement check:
\* the environments are the cooperative one with one stage's externals
\* replaced (both version commands for the requirement check).
Envs == {[Cooperative EXCEPT !.node = n, !.npm = m] : n \in NodeResults, m \in NpmResults}
        \cup {[Cooperative EXCEPT !.server = x] : x \in ServerResults}
        \cup {[Cooperative EXCEPT !.unzip = x] : x \in {"ok", "error"}}
        \cup {[Cooperative EXCEPT !.post = x] : x \in PostResults}

\* the directories a user starts the installer from
Cwds == {<<"home">>, ToolsDir}


\* ------------------------------------------------------------------ state
VARIABLES
    env,      \* the externals: what each would answer if asked now
    changed,  \* ghost: env was changed since the last run started
    zip,      \* tools/web-search-mcp-v0.3.2.zip: [exists, bytes]
    dir,      \* the directory beside it: [exists, name, entries]
    cwd,      \* the process's current working directory
    pc,       \* where the run stands: idle, check, fetch, downloading,
              \* extract, extracting, setup, npm, npx, done
    resp,     \* the part of the response body not yet read
    run,      \* the run's locals and its record (ghost): see NewRun
    hist,     \* ghost, over all runs: what has ever succeeded, the number of
              \* calls of setup_marker.touch() (counted up to 2), and whether
              \* the archive on disk was left by a download that was cut short
    vin,      \* argument of the check_command_version call under test
    vout      \* its result

vars == <<env, changed, zip, dir, cwd, pc, resp, run, hist, vin, vout>>

NoCall == [command |-> "", min_version |-> <<>>, result |-> Failed, triple |-> <<>>, fmt |-> "",
           min |-> <<>>]

NoResult == [met |-> FALSE, message |-> Message("", "", <<>>, <<>>)]

\* the record of a run that has just been started
\*   stages, results : the stages main has started, and what each returned
\*   log             : the run's effects on the externals and the filesystem
\*   exit            : the process's exit status, -1 while it runs
\*   prev_exit       : the exit status of the run before, -1 if there is none
\*   same_env        : env is what it was throughout the run before
\*   fresh           : no archive and no directory when the run started
\*   original_cwd    : run_npm_setup's local
\*   cwd_before      : cwd when run_npm_setup was called
\*   checks          : the status line of each requirement
NewRun(prev_exit, same_env, fresh) ==
    [stages |-> <<>>, results |-> <<>>, log |-> <<>>, exit |-> -1,
     prev_exit |-> prev_exit, same_env |-> same_env, fresh |-> fresh,
     original_cwd |-> <<>>, cwd_before |-> <<>>, checks |-> <<>>]

Init ==
    /\ env \in Envs
    /\ changed = FALSE
    /\ zip = NoFile
    /\ dir = NoDir
    /\ cwd \in Cwds
    /\ pc = "idle"
    /\ resp = <<>>
    /\ run = NewRun(-1, FALSE, TRUE)
    /\ hist = [extracted |-> FALSE, setup |-> FALSE, touches |-> 0, partial |-> FALSE]
    /\ vin = NoCall
    /\ vout = NoResult

\* main calls a stage
Started(r, stage) == [r EXCEPT !.stages = Append(@, stage)]

\* a stage returns to main
Returned(r, ok) == [r EXCEPT !.results = Append(@, ok)]

\* faulty variant: every exit reports success
Exited_zero(r, code) == [r EXCEPT !.exit = 0]

\* sys.exit(code), or falling off the end of main
Exited(r, code) == [r EXCEPT !.exit = code]

Logged(r, events) == [r EXCEPT !.log = @ \o events]

\* ----------------------------------------------------------------- runs
\* the installer is started: python install_web_search_mcp.py
StartRun ==
    /\ pc \in {"idle", "done"}
    /\ pc' = "check"
    /\ run' = NewRun(run.exit, pc = "done" /\ ~changed, ~zip.exists /\ ~dir.exists)
    /\ changed' = FALSE
    /\ cwd' \in Cwds
    /\ resp' = <<>>
    /\ UNCHANGED <<env, zip, dir, hist, vin, vout>>

\* between two runs the externals change
EnvChange ==
    /\ pc \in {"idle", "done"}
    /\ env' \in Envs \ {env}
    /\ changed' = TRUE
    /\ UNCHANGED <<zip, dir, cwd, pc, resp, run, hist, vin, vout>>

\* main, lines 251-259: check_requirements and the exit on failure
CheckRequirements ==
    /\ pc = "check"
    /\ LET c == check_requirements(env)
           r == Returned(Logged([Started(run, "check") EXCEPT !.checks = c.checks],
                                [i \in 1..Len(c.checks) |-> "version"]),
                         c.all_met) IN
       IF c.all_met
       THEN pc' = "fetch" /\ run' = r
       ELSE pc' = "done" /\ run' = Exited(r, 1)
    /\ UNCHANGED <<env, changed, zip, dir, cwd, resp, hist, vin, vout>>


\* faulty variant: the file that failed verification is left on disk
Unlinked_kept(f) == f

\* zip_file.unlink()
Unlinked(f) == NoFile

\* download_web_search_mcp, lines 97-123 and 159-164: the check of an existing
\* file, and the request up to the opening of the destination file
FetchBegin ==
    /\ pc = "fetch"
    /\ LET r0       == Started(run, "fetch")
           verified == zip.exists /\ verify_file_hash(zip.bytes, expected_hash)
           r1       == IF ~zip.exists THEN r0
                       ELSE IF verified THEN Logged(r0, <<"verify_ok">>)
                       ELSE Logged(r0, <<"verify_fail", "unlink">>) IN
       IF verified
       THEN /\ pc' = "extract"
            /\ run' = Returned(r1, TRUE)
            /\ UNCHANGED <<zip, resp, hist>>
       ELSE IF env.server.kind \in {"urlerror", "non200"}
       THEN /\ pc' = "done"
            /\ run' = Exited(Returned(Logged(r1, <<"request">>), FALSE), 1)
            /\ zip' = IF zip.exists THEN Unlinked(zip) ELSE zip
            /\ hist' = [hist EXCEPT !.partial = FALSE]
            /\ UNCHANGED resp
       ELSE /\ pc' = "downloading"
            /\ run' = Logged(r1, <<"request">>)
            /\ zip' = [exists |-> TRUE, bytes |-> <<>>]
            /\ hist' = [hist EXCEPT !.partial = FALSE]
            /\ resp' = env.server.body
    /\ UNCHANGED <<env, changed, dir, cwd, vin, vout>>

\* lines 136-141: one chunk is read and written
DownloadChunk ==
    /\ pc = "downloading"
    /\ resp # <<>>
    /\ ~(env.server.kind = "drop" /\ Len(resp) = 1)
    /\ zip' = [zip EXCEPT !.bytes = Append(@, Head(resp))]
    /\ resp' = Tail(resp)
    /\ run' = Logged(run, <<"write">>)
    /\ UNCHANGED <<env, changed, dir, cwd, pc, hist, vin, vout>>

\* lines 137 and 159-164: the connection breaks before the last chunk; the
\* part written so far stays on disk
DownloadDrop ==
    /\ pc = "downloading"
    /\ env.server.kind = "drop" /\ Len(resp) = 1
    /\ pc' = "done"
    /\ resp' = <<>>
    /\ run' = Exited(Returned(run, FALSE), 1)
    /\ hist' = [hist EXCEPT !.partial = TRUE]
    /\ UNCHANGED <<env, changed, zip, dir, cwd, vin, vout>>

\* faulty variant: a download that fails verification is tried again
FailedDownload_retry(r) == [pc |-> "fetch", run |-> r]

\* return False, None (line 155), and main's exit on it (lines 266-268)
FailedDownload(r) == [pc |-> "done", run |-> Exited(Returned(r, FALSE), 1)]

\* lines 138-139 and 148-157: the body is read to its end and the file verified
DownloadEnd ==
    /\ pc = "downloading"
    /\ resp = <<>>
    /\ IF verify_file_hash(zip.bytes, expected_hash)
       THEN /\ pc' = "extract"
            /\ run' = Returned(Logged(run, <<"verify_ok">>), TRUE)
            /\ zip' = zip
       ELSE /\ pc' = FailedDownload(Logged(run, <<"verify_fail", "unlink">>)).pc
            /\ run' = FailedDownload(Logged(run, <<"verify_fail", "unlink">>)).run
            /\ zip' = Unlinked(zip)
    /\ UNCHANGED <<env, changed, dir, cwd, resp, hist, vin, vout>>


\* extract_dir of install_web_search_mcp (line 225) and run_npm_setup
ExtractDirName == Stem(ZipName)

ExtractDirPath == Append(ToolsDir, ExtractDirName)

\* faulty variant: an existing but empty directory is unpacked into again
ExtractDirExists_nonempty(d) == d.exists /\ d.name = ExtractDirName /\ d.entries # {}

\* extract_dir.exists()
ExtractDirExists(d) == d.exists /\ d.name = ExtractDirName

\* faulty variant: the marker is never looked at
MarkerExists_never(d) == FALSE

\* faulty variant: another file name is looked for
MarkerExists_wrongname(d) == ExtractDirExists(d) /\ ".setup_done" \in d.entries

\* setup_marker.exists()
MarkerExists(d) == ExtractDirExists(d) /\ SetupMarker \in d.entries

\* what an unpacking that stops early leaves in the directory
PartialExtractions == (SUBSET ArchiveEntries) \ {ArchiveEntries}

\* install_web_search_mcp, lines 222-231: the skip, or mkdir
ExtractBegin ==
    /\ pc = "extract"
    /\ IF ExtractDirExists(dir)
       THEN /\ pc' = "setup"
            /\ run' = Returned(Started(run, "extract"), TRUE)
            /\ dir' = dir
       ELSE /\ pc' = "extracting"
            /\ run' = Logged(Started(run, "extract"), <<"mkdir">>)
            /\ dir' = [exists |-> TRUE, name |-> ExtractDirName, entries |-> {}]
    /\ UNCHANGED <<env, changed, zip, cwd, resp, hist, vin, vout>>

\* lines 233-244: extractall, and the two handlers; main's exit on failure
ExtractAll ==
    /\ pc = "extracting"
    /\ IF IsZipFile(zip.bytes) /\ env.unzip = "ok"
       THEN /\ pc' = "setup"
            /\ run' = Returned(Logged(run, <<"extractall">>), TRUE)
            /\ dir' = [dir EXCEPT !.entries = ArchiveEntries]
            /\ hist' = [hist EXCEPT !.extracted = TRUE]
       ELSE /\ pc' = "done"
            /\ run' = Exited(Returned(Logged(run, <<"extractall">>), FALSE), 1)
            /\ IF IsZipFile(zip.bytes)
               THEN \E part \in PartialExtractions : dir' = [dir EXCEPT !.entries = part]
               ELSE dir' = dir
            /\ hist' = hist
    /\ UNCHANGED <<env, changed, zip, cwd, resp, vin, vout>>

\* run_npm_setup, lines 168-179: the skip on the marker (and main's exit 0),
\* or the change into the directory
SetupBegin ==
    /\ pc = "setup"
    /\ LET r == [Started(run, "setup") EXCEPT !.cwd_before = cwd] IN
       IF MarkerExists(dir)
       THEN /\ pc' = "done"
            /\ run' = Exited(Returned(r, TRUE), 0)
            /\ cwd' = cwd
       ELSE /\ pc' = "npm"
            /\ run' = Logged([r EXCEPT !.original_cwd = cwd], <<"chdir">>)
            /\ cwd' = ExtractDirPath
    /\ UNCHANGED <<env, changed, zip, dir, resp, hist, vin, vout>>

\* faulty variant: no finally clause, the process stays in the directory
Restored_stays(r) == ExtractDirPath

\* the finally clause, line 218
Restored(r) == r.original_cwd

\* faulty variant: the exit status is not looked at (check=False)
CommandPassed_unchecked(status) == status # "error"

\* subprocess.run(..., check=True) returns instead of raising
CommandPassed(status) == status = "ok"

\* what the command did: its exit status, or "raised" if it could not be run
ExitToken(status) == IF status = "ok" THEN "exit 0"
                     ELSE IF status = "fail" THEN "exit 1" ELSE "raised"

\* lines 181-185, and 206-218 when the command fails
NpmInstall ==
    /\ pc = "npm"
    /\ IF CommandPassed(env.post.npm_install)
       THEN /\ pc' = "npx"
            /\ run' = Logged(run, <<"npm install", ExitToken(env.post.npm_install)>>)
            /\ dir' = [dir EXCEPT !.entries = @ \cup {"node_modules"}]
            /\ cwd' = cwd
       ELSE /\ pc' = "done"
            /\ run' = Exited(Returned(Logged(run, <<"npm install",
                                                     ExitToken(env.post.npm_install)>>),
                                     FALSE), 1)
            /\ dir' = dir
            /\ cwd' = Restored(run)
    /\ UNCHANGED <<env, changed, zip, resp, hist, vin, vout>>

\* faulty variant: the marker is written without the artifact check
IndexJsExists_unchecked(d, wd) == TRUE

\* Path("dist/index.js").exists(), relative to the working directory
IndexJsExists(d, wd) == wd = ExtractDirPath /\ ExtractDirExists(d) /\ "dist/index.js" \in d.entries

\* the run's log shows both commands exiting 0, in order, and the artifact
PostInstallPassed(log) ==
    \E i \in 1..(Len(log) - 4) :
        SubSeq(log, i, i + 4) = <<"npm install", "exit 0", "npx playwright install", "exit 0",
                                  "index.js found">>

\* lines 187-218: npx playwright install, the artifact check, the marker
NpxInstall ==
    /\ pc = "npx"
    /\ pc' = "done"
    /\ cwd' = Restored(run)
    /\ LET r == Logged(run, <<"npx playwright install">>) IN
       IF ~CommandPassed(env.post.npx)
       THEN /\ run' = Exited(Returned(Logged(r, <<ExitToken(env.post.npx)>>), FALSE), 1)
            /\ dir' = dir
       ELSE IF ~IndexJsExists(dir, cwd)
       THEN /\ run' = Exited(Returned(Logged(r, <<ExitToken(env.post.npx), "index.js missing">>),
                                     FALSE), 1)
            /\ dir' = dir
       ELSE /\ run' = Exited(Returned(Logged(r, <<ExitToken(env.post.npx), "index.js found",
                                                 "touch">>), TRUE), 0)
            /\ dir' = [dir EXCEPT !.entries = @ \cup {SetupMarker}]
    /\ hist' = [hist EXCEPT !.setup = @ \/ PostInstallPassed(run'.log),
                            !.touches = IF Len(run'.log) > 0 /\ run'.log[Len(run'.log)] = "touch" /\ @ < 2
                                         THEN @ + 1 ELSE @]
    /\ UNCHANGED <<env, changed, zip, resp, vin, vout>>

\* the process is terminated (a signal) while it downloads, unpacks or runs
\* a command: what is written so far stays
Interrupt ==
    /\ pc \in {"downloading", "extracting", "npm", "npx"}
    /\ pc' = "done"
    /\ run' = Exited(run, 130)
    /\ resp' = <<>>
    /\ IF pc = "extracting" /\ IsZipFile(zip.bytes)
       THEN \E part \in PartialExtractions : dir' = [dir EXCEPT !.entries = part]
       ELSE dir' = dir
    /\ hist' = [hist EXCEPT !.partial = @ \/ pc = "downloading"]
    /\ UNCHANGED <<env, changed, zip, cwd, vin, vout>>

Next ==
    \/ StartRun
    \/ EnvChange
    \/ CheckRequirements
    \/ FetchBegin
    \/ DownloadChunk
    \/ DownloadDrop
    \/ DownloadEnd
    \/ ExtractBegin
    \/ ExtractAll
    \/ SetupBegin
    \/ NpmInstall
    \/ NpxInstall
    \/ Interrupt

Spec == Init /\ [][Next]_vars

\* The installer is run again and again, and a run that is not ended from
\* outside goes on to its next step: the steps are sequential code of one
\* process (main, lines 246-284).
\* main, lines 251-259, seen from outside: check_requirements has returned.
\* Only CheckRequirements takes pc from "check", and it always does.
CheckReturns == pc = "check" /\ pc' \in {"fetch", "done"}

SpecResume ==
    /\ Init /\ [][Next]_vars
    /\ WF_vars(StartRun)
    /\ WF_pc(CheckReturns)
    /\ WF_vars(FetchBegin) /\ WF_vars(DownloadChunk) /\ WF_vars(DownloadEnd)
    /\ WF_vars(ExtractBegin) /\ WF_vars(ExtractAll)
    /\ WF_vars(SetupBegin) /\ WF_vars(NpmInstall) /\ WF_vars(NpxInstall)


\* ------------------------------------------- check_command_version alone
\* A second specification: one call of check_command_version on an argument
\* drawn from the bounded sets below, the pipeline standing still.
Triples == {<<a, b, c>> : a \in 0..MaxMajor, b \in 0..MaxMinor, c \in 0..MaxMinor}

MinTriples == {<<a, b, c>> : a \in {8, 18}, b \in 0..MaxMinor, c \in 0..MaxMinor}

Formats == {"plain", "v", "rc", "nightly", "text", "bare"}

VerInputs ==
    {[command |-> c, min_version |-> Dotted(m), result |-> Ran(Reported(t, f)),
      triple |-> t, fmt |-> f, min |-> m] :
        c \in {"node", "npm", "git"}, m \in MinTriples, t \in Triples, f \in Formats}
    \cup
    {[command |-> c, min_version |-> Dotted(m), result |-> x,
      triple |-> <<>>, fmt |-> "", min |-> m] :
        c \in {"node", "npm", "git"}, m \in MinTriples, x \in {Failed, NotFound}}

InitVer ==
    /\ env = Cooperative
    /\ changed = FALSE
    /\ zip = NoFile
    /\ dir = NoDir
    /\ cwd = ToolsDir
    /\ pc = "call"
    /\ resp = <<>>
    /\ run = NewRun(-1, FALSE, TRUE)
    /\ hist = [extracted |-> FALSE, setup |-> FALSE, touches |-> 0, partial |-> FALSE]
    /\ vin \in VerInputs
    /\ vout = NoResult

CallCheck ==
    /\ pc = "call"
    /\ pc' = "returned"
    /\ vout' = check_command_version(vin.command, vin.min_version, vin.result)
    /\ UNCHANGED <<env, changed, zip, dir, cwd, resp, run, hist, vin>>

NextVer == CallCheck

SpecVer == InitVer /\ [][NextVer]_vars


\* ================================================================ claims
\* the number of times event e is in log
RECURSIVE Count(_, _)
Count(log, e) == IF log = <<>> THEN 0
                 ELSE (IF Head(log) = e THEN 1 ELSE 0) + Count(Tail(log), e)

\* the part of log after position i
After(log, i) == SubSeq(log, i + 1, Len(log))

\* a run without a download request, an unpacking or a post-install command
Quiet(r) ==
    \A i \in 1..Len(r.log) :
        r.log[i] \notin {"request", "write", "mkdir", "extractall",
                         "npm install", "npx playwright install"}

\* the stage's result in the run, where stage k has returned
StageReturned(r, k) == Len(r.results) >= k

\* ---------------------------------------------------------------------
\* C1 as stated: when the pipeline has run twice in succession with nothing
\* external changed in between, the second run made no download request,
\* unpacked nothing and ran no post-install command.
C1_SecondRunQuiet ==
    (pc = "done" /\ run.exit \in {0, 1} /\ run.prev_exit \in {0, 1} /\ run.same_env)
        => Quiet(run)

\* C1 amended: after a run that exited 0, the next run makes no download
\* request, unpacks nothing and runs no post-install command.
C1_QuietAfterSuccess == run.prev_exit = 0 => Quiet(run)

C1_Witness ==
    /\ pc = "done" /\ run.prev_exit = 0 /\ run.same_env /\ run.exit = 0
    /\ run.stages = <<"check", "fetch", "extract", "setup">>

\* ---------------------------------------------------------------------
\* C2: once the Fetcher has returned success, the archive on disk hashes to
\* the pinned digest and was verified in this run; the Extractor is started
\* only on an archive verified earlier in the same run.
C2_VerifiedBeforeTrust ==
    /\ (StageReturned(run, 2) /\ run.results[2])
          => /\ zip.exists
             /\ Sha256(zip.bytes) = expected_hash
             /\ Count(run.log, "verify_ok") = 1
    /\ (\E i \in 1..Len(run.stages) : run.stages[i] = "extract")
          => /\ Count(run.log, "verify_ok") = 1
             /\ zip.exists /\ Sha256(zip.bytes) = expected_hash

C2_Witness ==
    /\ pc = "extracting" /\ Count(run.log, "request") = 1 /\ run.prev_exit = 1

\* ---------------------------------------------------------------------
\* C3 as stated: every failed verification in a run is followed by the
\* deletion of the file and by exactly one more download request.
C3_EveryMismatchRetried ==
    pc = "done" =>
        \A i \in 1..Len(run.log) :
            run.log[i] = "verify_fail"
                => /\ i < Len(run.log) /\ run.log[i + 1] = "unlink"
                   /\ Count(After(run.log, i), "request") = 1

\* C3 amended: every failed verification is followed by the deletion of the
\* file; for a file that was there before the run's download, exactly one
\* download request follows; for the file the run has just downloaded, no
\* request follows, the Fetcher returns failure and no archive is left.
C3_MismatchDeletedRetriedOnce ==
    \A i \in 1..Len(run.log) :
        run.log[i] = "verify_fail"
            => /\ i < Len(run.log) /\ run.log[i + 1] = "unlink"
               /\ IF Count(SubSeq(run.log, 1, i), "request") = 0
                  THEN /\ Count(After(run.log, i), "request") = 1
                       /\ After(run.log, i)[2] = "request"
                  ELSE /\ Count(After(run.log, i), "request") = 0
                       /\ StageReturned(run, 2) /\ ~run.results[2]
                       /\ ~zip.exists

C3_Witness ==
    /\ pc = "done"
    /\ Count(run.log, "verify_fail") = 2 /\ Count(run.log, "request") = 1


\* ---------------------------------------------------------------------
\* C4: the marker exists only if in some run so far npm install and then npx
\* playwright install exited 0 and dist/index.js was found (so both
\* node_modules and dist/index.js are in the directory); the marker is
\* created only in a run whose log shows exactly that.
C4_MarkerOnlyAfterSuccess ==
    /\ MarkerExists(dir) => /\ hist.setup
                            /\ {"node_modules", "dist/index.js"} \subseteq dir.entries
    /\ Count(run.log, "touch") > 0 => PostInstallPassed(run.log)
    /\ (pc = "done" /\ ~PostInstallPassed(run.log)) => Count(run.log, "touch") = 0

C4_Witness ==
    /\ pc = "done" /\ MarkerExists(dir) /\ Count(run.log, "touch") = 1
    /\ run.prev_exit = 1

\* ---------------------------------------------------------------------
\* C5 as stated: whenever a run has ended (not by a signal) and the
\* extraction directory exists, some extraction into it has completed.
C5_DirImpliesExtracted ==
    (pc = "done" /\ run.exit \in {0, 1} /\ ExtractDirExists(dir)) => hist.extracted

\* ---------------------------------------------------------------------
\* C6: once run_npm_setup has returned, the working directory is what it
\* was when the stage was called.
C6_CwdRestored ==
    StageReturned(run, 4) => cwd = run.cwd_before

C6_Witness ==
    /\ StageReturned(run, 4) /\ ~run.results[4]
    /\ Count(run.log, "chdir") = 1 /\ Count(run.log, "index.js missing") = 1
    /\ cwd = <<"home">>

\* ---------------------------------------------------------------------
\* C7: a run in which node is older than 18.0.0 or missing, or npm is older
\* than 8.0.0 or missing, ends at the requirement check with exit status 1:
\* no request is made and the archive, the directory and the marker are left
\* as they were.
Unmet(e) ==
    \/ e.node \in {Failed, NotFound, Ran(<<"v", "1", "7", ".", "1", ".", "1">>)}
    \/ e.npm \in {Failed, NotFound, Ran(<<"7", ".", "1", ".", "0">>)}

C7_NoNetworkWhenUnmet ==
    [][(pc = "check" /\ Unmet(env))
          => /\ pc' = "done"
             /\ run'.exit = 1
             /\ run'.stages = <<"check">>
             /\ Quiet(run') /\ Count(run'.log, "unlink") = 0
             /\ zip' = zip /\ dir' = dir]_vars

C7_Witness ==
    /\ pc = "done" /\ Unmet(env) /\ ~changed /\ run.exit = 1
    /\ zip.exists /\ run.stages = <<"check">>

\* ---------------------------------------------------------------------
\* C8: main starts the stages in the order check, fetch, extract, setup,
\* starts none after a stage that returned failure, exits 1 when a stage
\* returned failure, and exits 0 only when all four returned success.
Pipeline == <<"check", "fetch", "extract", "setup">>

C8_HaltAtFirstFailure ==
    /\ Len(run.stages) <= Len(Pipeline)
    /\ run.stages = SubSeq(Pipeline, 1, Len(run.stages))
    /\ Len(run.results) \in {Len(run.stages) - 1, Len(run.stages)}
    /\ \A i \in 1..Len(run.results) :
          ~run.results[i] => /\ Len(run.stages) = i
                             /\ pc = "done" /\ run.exit = 1
    /\ run.exit = 0 => /\ Len(run.results) = Len(Pipeline)
                       /\ \A i \in 1..Len(run.results) : run.results[i]
    /\ run.exit = 1 => \E i \in 1..Len(run.results) : ~run.results[i]

C8_Witness ==
    /\ pc = "done" /\ run.exit = 1
    /\ run.stages = <<"check", "fetch", "extract">>
    /\ run.results = <<TRUE, TRUE, FALSE>>

\* ---------------------------------------------------------------------
\* C9: a run that starts with no archive and no directory, in the
\* cooperative environment, and is not terminated, has downloaded the
\* archive, verified it, unpacked it into web-search-mcp-v0.3.2, run npm
\* install and then npx playwright install, created the marker and exited 0.
C9_FreshRunInstalls ==
    (pc = "done" /\ run.fresh /\ env = Cooperative /\ ~changed /\ run.exit # 130)
        => /\ run.exit = 0
           /\ \E n \in 1..MaxChunks :
                 run.log = <<"version", "version", "request">>
                           \o [i \in 1..n |-> "write"]
                           \o <<"verify_ok", "mkdir", "extractall", "chdir",
                                "npm install", "exit 0",
                                "npx playwright install", "exit 0",
                                "index.js found", "touch">>
           /\ zip.exists /\ Sha256(zip.bytes) = expected_hash
           /\ dir.exists /\ dir.name = <<"web-search-mcp-v0", "3", "2">>
           /\ ArchiveEntries \subseteq dir.entries
           /\ ".setup_complete" \in dir.entries

C9_Witness ==
    /\ pc = "done" /\ run.fresh /\ env = Cooperative /\ ~changed /\ run.exit = 0

\* ---------------------------------------------------------------------
\* C10 (under SpecVer): for a command that prints the version a.b.c, plain
\* or with a leading v, check_command_version passes when a.b.c >= the
\* minimum in major, minor, patch order, and otherwise fails with a line
\* that shows the found version and the required minimum.
SemverGE(a, b) ==
    \/ a[1] > b[1]
    \/ a[1] = b[1] /\ a[2] > b[2]
    \/ a[1] = b[1] /\ a[2] = b[2] /\ a[3] >= b[3]

C11_ExtractionSkipped ==
    [][(pc = "extract" /\ dir.exists /\ dir.name = <<"web-search-mcp-v0", "3", "2">>)
          => /\ dir' = dir /\ zip' = zip
             /\ run'.log = run.log
             /\ run'.stages = Append(run.stages, "extract")
             /\ run'.results = Append(run.results, TRUE)
             /\ pc' = "setup"]_vars

C11_Witness ==
    /\ pc = "setup" /\ run.stages = <<"check", "fetch", "extract">>
    /\ run.results = <<TRUE, TRUE, TRUE>>
    /\ Count(run.log, "mkdir") = 0 /\ dir.exists /\ dir.entries = {}

\* ---------------------------------------------------------------------
\* C12: when run_npm_setup is called and .setup_complete is in the
\* directory, the call runs no command, does not change the working
\* directory, does not touch the marker and returns success (main exits 0);
\* over all runs setup_marker.touch() is called at most once.
C12_SetupSkipped ==
    [][/\ (pc = "setup" /\ dir.exists /\ ".setup_complete" \in dir.entries)
            => /\ run'.log = run.log
               /\ cwd' = cwd /\ dir' = dir
               /\ hist'.touches = hist.touches
               /\ run'.results = Append(run.results, TRUE)
               /\ pc' = "done" /\ run'.exit = 0
       /\ hist'.touches <= 1]_vars

C12_Witness ==
    /\ pc = "done" /\ run.exit = 0 /\ run.results = <<TRUE, TRUE, TRUE, TRUE>>
    /\ Count(run.log, "chdir") = 0 /\ hist.touches = 1 /\ cwd = <<"home">>

\* ---------------------------------------------------------------------
\* C13: when the Fetcher is called and the archive on disk was left by a
\* download that was cut short (a transport error, or the process was
\* terminated) and is not the whole archive, the Fetcher finds the digest
\* mismatch, deletes the file and requests the download again, writing from
\* the first chunk into an empty file; the Extractor is only ever reached
\* with the whole archive on disk.
C13_PartialRedownloaded ==
    [][/\ (pc = "fetch" /\ hist.partial /\ zip.exists /\ zip.bytes # <<1, 2>>)
            => /\ SubSeq(run'.log, Len(run.log) + 1, Len(run'.log))
                    = <<"verify_fail", "unlink", "request">>
               /\ pc' \in {"downloading", "done"}
               /\ pc' = "downloading"
                     => zip' = [exists |-> TRUE, bytes |-> <<>>] /\ resp' = env.server.body
               /\ pc' = "done" => ~zip'.exists /\ run'.exit = 1
       /\ pc' = "extract" => zip'.exists /\ zip'.bytes = <<1, 2>>]_vars

C13_Witness ==
    /\ pc = "extract" /\ run.prev_exit = 130
    /\ run.log = <<"version", "version", "verify_fail", "unlink", "request",
                   "write", "write", "verify_ok">>
    /\ ~dir.exists

\* ---------------------------------------------------------------------
\* C14 as stated: if from some point on the environment cooperates
\* (requirements met, the server delivers the pinned bytes, every command
\* exits zero, extractall does not raise) and no run is interrupted, then,
\* whatever the earlier runs have left on disk, some later run ends with
\* exit status 0 and the completion marker present.
Settled == env = Cooperative /\ run.exit # 130

Installed == pc = "done" /\ run.exit = 0 /\ MarkerExists(dir)

C14_Resumable == <>[]Settled => []<>Installed

\* The same with the further hypothesis that the extraction directory,
\* whenever it exists between runs, holds what a completed extraction puts
\* there (the statement of C5): every other leftover is recovered from.
DirWhole == (pc \in {"idle", "done"} /\ ExtractDirExists(dir)) => ArchiveEntries \subseteq dir.entries

C14_ResumableWhenDirWhole == ([]DirWhole /\ <>[]Settled) => []<>Installed

\* ---------------------------------------------------------------------
\* C15: in a run's log npx playwright install comes only directly after an
\* npm install that exited 0, and each is run at most once; in a run in which
\* npm install exited non-zero npx playwright install is not started, the
\* marker is not touched, and the stage returns False with no marker in
\* the directory.
C15_PostInstallOrder ==
    /\ Count(run.log, "npm install") <= 1 /\ Count(run.log, "npx playwright install") <= 1
    /\ \A i \in 1..Len(run.log) :
          /\ run.log[i] = "npx playwright install"
                => i >= 3 /\ run.log[i - 2] = "npm install" /\ run.log[i - 1] = "exit 0"
          /\ (run.log[i] = "npm install" /\ i < Len(run.log) /\ run.log[i + 1] = "exit 1")
                => /\ Count(run.log, "npx playwright install") = 0
                   /\ Count(run.log, "touch") = 0
                   /\ run.stages = Pipeline /\ run.results = <<TRUE, TRUE, TRUE, FALSE>>
                   /\ ~MarkerExists(dir)

C15_Witness ==
    /\ pc = "done" /\ run.exit = 1 /\ run.results = <<TRUE, TRUE, TRUE, FALSE>>
    /\ After(run.log, Len(run.log) - 3) = <<"chdir", "npm install", "exit 1">>

\* ---------------------------------------------------------------------
\* C16: once check_requirements has returned, both requirements have been
\* checked, node first and npm second, whatever the first check gave: a
\* command that is not found, exits non-zero or reports a version that
\* cannot be parsed fails its own check only.  The stage reports success
\* if and only if every single check passed.
C16_AllRequirementsChecked ==
    StageReturned(run, 1) =>
        /\ Len(run.checks) = 2 /\ Count(run.log, "version") = 2
        /\ run.checks[1].message.command = "node"
        /\ run.checks[2].message.command = "npm"
        /\ run.results[1] <=> (run.checks[1].met /\ run.checks[2].met)
        /\ ~changed =>
              /\ env.node.kind = "failed" => run.checks[1].message.kind = "failed"
              /\ env.node = Ran(Reported(<<19, 0, 0>>, "nightly"))
                    => run.checks[1].message.kind = "error"
              /\ env.npm.kind = "notfound" => run.checks[2].message.kind = "notfound"
              /\ run.checks[2].met <=> env.npm = Ran(Reported(<<8, 0, 0>>, "plain"))

C16_Witness ==
    /\ StageReturned(run, 1) /\ ~run.results[1] /\ pc = "done" /\ ~changed
    /\ env.node = Ran(Reported(<<19, 0, 0>>, "nightly"))
    /\ ~run.checks[1].met /\ run.checks[2].met

\* ---------------------------------------------------------------------
\* C17: a run's log holds at most one download request.  If the file found
\* on disk fails verification (a mismatch before any request), exactly one
\* request follows; if the file just downloaded fails verification (a
\* mismatch after the request), the stage returns False and the run ends
\* with no further request.
C17_AtMostOneRequest ==
    /\ Count(run.log, "request") <= 1
    /\ \A i \in 1..Len(run.log) :
          run.log[i] = "verify_fail" =>
             IF Count(SubSeq(run.log, 1, i), "request") = 0
             THEN Count(run.log, "request") = 1
             ELSE /\ Count(After(run.log, i), "request") = 0
                  /\ pc = "done" /\ run.exit = 1
                  /\ run.stages = <<"check", "fetch">> /\ run.results = <<TRUE, FALSE>>

C17_Witness ==
    /\ pc = "done" /\ run.results = <<TRUE, FALSE>>
    /\ Count(run.log, "verify_fail") = 2 /\ Count(run.log, "request") = 1
    /\ run.log[3] = "verify_fail" /\ run.log[Len(run.log) - 1] = "verify_fail"

\* ---------------------------------------------------------------------
\* C18: when the fetch stage has returned False after a download that ran
\* to its end and whose file failed verification, the file has been
\* unlinked after the verification and the archive is not on disk.
C18_BadDownloadRemoved ==
    (/\ pc = "done" /\ StageReturned(run, 2) /\ ~run.results[2]
     /\ \E i \in 1..Len(run.log) :
           run.log[i] = "verify_fail" /\ Count(SubSeq(run.log, 1, i), "request") = 1)
        => /\ After(run.log, Len(run.log) - 2) = <<"verify_fail", "unlink">>
           /\ ~zip.exists

C18_Witness ==
    /\ pc = "done" /\ run.exit = 1 /\ run.fresh /\ ~zip.exists
    /\ run.log = <<"version", "version", "request", "write", "write",
                   "verify_fail", "unlink">>

====
